---- MODULE Spec2Model ----
(***************************************************************************)
(* A model of reclist's test-registration-and-execution engine             *)
(* (src/reclist/receval_apo.py): the rec_test decorator, RecList's test    *)
(* discovery, the telemetry loggers, the metadata stores and               *)
(* RecList.__call__ with report and plot generation.                       *)
(*                                                                         *)
(* Python objects are records: hasattr(o, "a") is "a" \in DOMAIN o.        *)
(* A Python dict is a sequence of <<key, value>> pairs in insertion order. *)
(* An exception is the record [exc |-> <type>].                            *)
(***************************************************************************)
EXTENDS Integers, Sequences, FiniteSets, TLC

\* ------------------------------------------------------------------ bounds

\* How many times one suite instance is invoked in a behaviour.
MaxInvocations == 2

\* time.time() in milliseconds is read from 0..MaxTime.
MaxTime == 1

\* How many Result Records the plot generator is handed in SpecPlots.
MaxRecords == 2

\* ------------------------------------------------------------ Python values

None == "None"

\* What a test callable can return, by Python type: isinstance is all the
\* engine ever asks of a result.  "str" stands for every type that is
\* neither float, int, dict nor list.
PyTypes == {"float", "int", "dict", "list", "str"}

isinstance(value, type) == value.type = type

\* A result has .keys() exactly when it is a mapping.
HasKeys(value) == value.type = "dict"

Value(type) == [type |-> type]

\* ------------------------------------------------------------- dict helpers

Keys(d) == [i \in 1..Len(d) |-> d[i][1]]

HasKey(d, k) == \E i \in 1..Len(d) : d[i][1] = k

Lookup(d, k) == d[CHOOSE i \in 1..Len(d) : d[i][1] = k][2]

\* d[k] = v: an existing key keeps its position, a new key goes last.
DictSet(d, k, v) ==
    IF HasKey(d, k)
    THEN [i \in 1..Len(d) |-> IF d[i][1] = k THEN <<k, v>> ELSE d[i]]
    ELSE Append(d, <<k, v>>)

Range(s) == {s[i] : i \in 1..Len(s)}

IsPrefix(s, t) == Len(s) <= Len(t) /\ SubSeq(t, 1, Len(s)) = s

\* --------------------------------------------------------------- CHART_TYPE

SCALAR == "scalar"
BARS == "bars"
BINS == "bins"

CHART_TYPE == {SCALAR, BARS, BINS}

\* str() of a display type: str(CHART_TYPE.BARS) is "CHART_TYPE.BARS",
\* str(None) is "None".
Str(display_type) ==
    CASE display_type = SCALAR -> "CHART_TYPE.SCALAR"
      [] display_type = BARS -> "CHART_TYPE.BARS"
      [] display_type = BINS -> "CHART_TYPE.BINS"
      [] OTHER -> "None"

\* ----------------------------------------------------------------- rec_test

\* A docstring is None or a sequence of tokens, " " being whitespace;
\* lstrip().rstrip() drops the whitespace at both ends.
RECURSIVE LStrip(_)
LStrip(doc) ==
    IF doc # <<>> /\ Head(doc) = " " THEN LStrip(Tail(doc)) ELSE doc

RECURSIVE RStrip(_)
RStrip(doc) ==
    IF doc # <<>> /\ doc[Len(doc)] = " "
    THEN RStrip(SubSeq(doc, 1, Len(doc) - 1))
    ELSE doc

\* f.__doc__.lstrip().rstrip(), "" when f has no docstring (the except arm).
TestDesc(f) ==
    IF f.__doc__ = None THEN <<>> ELSE RStrip(LStrip(f.__doc__))

\* The wrapper w the decorator returns for f.
rec_test(test_type, display_type, f) ==
    [is_test |-> TRUE,
     test_type |-> test_type,
     display_type |-> display_type,
     test_desc |-> TestDesc(f),
     name |-> f.__name__]

Def(name, doc) == [__name__ |-> name, __doc__ |-> doc]

\* ------------------------------------------------------------ suite classes

\* One entry of self.__dir__(): the attribute's name, whether getattr
\* resolves it while __init__ runs get_tests, and the object it resolves to.
Member(attr, resolvable, value) ==
    [attr |-> attr, resolvable |-> resolvable, value |-> value]

Plain(attr) == Member(attr, TRUE, [__name__ |-> attr])

Test(test_type, display_type, name, doc) ==
    Member(name, TRUE, rec_test(test_type, display_type, Def(name, doc)))

\* The instance attributes: name and model_name when __init__ calls
\* get_tests (lines 405-406), the others once __init__ has returned.  None
\* of them carries is_test.
InstanceMembers(self) ==
    << Member("name", TRUE, [str |-> self.name]),
       Member("model_name", TRUE, [str |-> self.model_name]) >>
    \o IF self.initialised
       THEN << Member("_rec_tests", TRUE, [dict |-> "_rec_tests"]),
               Member("_test_results", TRUE, [list |-> "_test_results"]),
               Member("logger_service", TRUE, [object |-> "RecLogger"]) >>
       ELSE <<>>

\* RecList's own members; the rec_tests property reads self._rec_tests,
\* which does not exist yet while __init__ runs get_tests, so hasattr is
\* False there.
RecListMembers(self) ==
    << Member("META_DATA_FOLDER", TRUE, [str |-> ".reclist"]),
       Plain("get_tests"),
       Plain("create_data_store"),
       Member("rec_tests", self.initialised, [dict |-> "_rec_tests"]) >>

FreeSessionRecList ==
    << Test("LessWrong", BINS, "less_wrong", None),
       Test("SlicedAccuracy", SCALAR, "sliced_accuracy",
            <<" ", "Compute the accuracy by slice", " ">>),
       Test("Accuracy", SCALAR, "accuracy",
            <<" ", "Compute the accuracy", " ">>),
       Test("AccuracyByCountry", BARS, "accuracy_by_country",
            <<" ", "Compute the accuracy by country", " ">>) >>

DFSessionRecList ==
    << Test("HIT_RATE", None, "hit_rate_at_100", None),
       Plain("hit_rate_at_k"),
       Plain("hits_at_k") >>

\* A suite with one scalar and one bars test, as FreeSessionRecList
\* declares its accuracy and accuracy_by_country tests.
AccuracySuite ==
    << FreeSessionRecList[3], FreeSessionRecList[4] >>

\* A suite whose two charted tests share one display label.
SameLabelSuite ==
    << Test("Accuracy", BARS, "accuracy_by_country", None),
       Test("Accuracy", BINS, "accuracy_by_bin", None) >>

\* A suite with two attributes bound to wrappers of the same __name__:
\* `check` is defined, aliased as `first`, and defined again.
CollisionSuite ==
    << Test("Second", SCALAR, "check", None),
       Member("first", TRUE, rec_test("First", BARS, Def("check", None))) >>

ClassNames ==
    {"FreeSessionRecList", "DFSessionRecList", "AccuracySuite",
     "SameLabelSuite", "CollisionSuite"}

OwnMembers(cls) ==
    CASE cls = "FreeSessionRecList" -> FreeSessionRecList
      [] cls = "DFSessionRecList" -> DFSessionRecList
      [] cls = "AccuracySuite" -> AccuracySuite
      [] cls = "SameLabelSuite" -> SameLabelSuite
      [] cls = "CollisionSuite" -> CollisionSuite

\* self.__dir__(): the instance's attributes, then the class's, then the
\* base class's, each in definition order.
Dir(self) ==
    InstanceMembers(self) \o OwnMembers(self.name) \o RecListMembers(self)

\* ------------------------------------------------------- RecList.get_tests

\* The loop of get_tests over the entries `members`, from the dict `nodes`.
RECURSIVE GetTestsFrom(_, _)
GetTestsFrom(members, nodes) ==
    IF members = <<>> THEN nodes
    ELSE LET m == Head(members)
         IN  IF ~m.resolvable
             THEN GetTestsFrom(Tail(members), nodes)
             ELSE IF "is_test" \in DOMAIN m.value
                  THEN GetTestsFrom(Tail(members),
                                    DictSet(nodes, m.value.name, m.value))
                  ELSE GetTestsFrom(Tail(members), nodes)

\* A discovery whose iteration order depends on the instance.
GetTestsUnstable(self) ==
    LET nodes == GetTestsFrom(Dir(self), <<>>)
    IN  IF self.model_name = "myRandomModel" THEN nodes
        ELSE [i \in 1..Len(nodes) |-> nodes[Len(nodes) + 1 - i]]

get_tests(self) == GetTestsFrom(Dir(self), <<>>)

\* --------------------------------------------------------------- exceptions

Raise(type) == [exc |-> type]

Return(value) == [ret |-> value]

IsExc(x) == "exc" \in DOMAIN x

\* ------------------------------------------------------------------ loggers

LOGGER == {"LOCAL", "COMET", "NEPTUNE"}

logger_factory(label) ==
    IF label = "COMET" THEN "CometLogger"
    ELSE IF label = "NEPTUNE" THEN "NeptuneLogger"
    ELSE "LocalLogger"

\* The settings each logger's __init__ resolves, in the order of its lines.
CometSettings == <<"COMET_KEY", "COMET_PROJECT_NAME", "COMET_WORKSPACE">>

NeptuneSettings == <<"NEPTUNE_KEY", "NEPTUNE_PROJECT_NAME">>

Settings(cls) ==
    CASE cls = "CometLogger" -> CometSettings
      [] cls = "NeptuneLogger" -> NeptuneSettings
      [] OTHER -> <<>>

\* kwargs.get(key, os.environ[key]): Python evaluates the default
\* os.environ[key] before the call, whether kwargs holds the key or not.
Resolve(kwargs, environ, key) ==
    IF key \notin DOMAIN environ THEN Raise("KeyError")
    ELSE IF key \in DOMAIN kwargs THEN Return(kwargs[key])
    ELSE Return(environ[key])

\* logger_factory(label)(**kwargs): the logger, or the first KeyError.
LoggerInit(cls, kwargs, environ) ==
    LET keys == Settings(cls)
        got == [i \in 1..Len(keys) |-> Resolve(kwargs, environ, keys[i])]
    IN  IF \E i \in 1..Len(keys) : IsExc(got[i]) THEN Raise("KeyError")
        ELSE [cls |-> cls,
              experiment |-> [i \in 1..Len(keys) |-> got[i].ret]]

\* What the telemetry backend holds: the remote experiment's entries and
\* the lines printed on the console.
NoTelemetry == [experiment |-> <<>>, stdout |-> <<>>]

\* logger_service.write(label, value)
LoggerWrite(service, label, value, out) ==
    CASE service.cls = "LocalLogger" ->
            [out EXCEPT !.stdout = Append(@, <<label, value>>)]
      [] service.cls = "CometLogger" ->
            IF isinstance(value, "float")
            THEN [out EXCEPT !.experiment = Append(@, <<"metric", label, value>>)]
            ELSE out
      [] service.cls = "NeptuneLogger" ->
            IF isinstance(value, "float")
            THEN [out EXCEPT !.experiment = Append(@, <<"field", label, value>>)]
            ELSE out

\* logger_service.save_plot(name=name, fig=fig)
LoggerSavePlot(service, name, fig, out) ==
    CASE service.cls = "LocalLogger" -> out
      [] service.cls = "CometLogger" ->
            [out EXCEPT !.experiment = Append(@, <<"image", name, fig>>)]
      [] service.cls = "NeptuneLogger" ->
            [out EXCEPT !.experiment = Append(@, <<"upload", name, fig>>)]

\* ---------------------------------------------------------- metadata stores

METADATA_STORE == {"LOCAL", "S3"}

metadata_store_factory(label) ==
    IF label = "S3" THEN "S3MetaStore" ELSE "LocalMetaStore"

\* os.path.join: an empty component adds nothing.
PathJoin(parts) == SelectSeq(parts, LAMBDA c : c # "")

Dirname(path) == SubSeq(path, 1, Len(path) - 1)

\* json.dumps of a test result, by its Python type.
JsonValue(value) ==
    CASE value.type = "float" -> [json |-> "number", frac |-> TRUE]
      [] value.type = "int" -> [json |-> "number", frac |-> FALSE]
      [] value.type = "dict" -> [json |-> "object"]
      [] value.type = "list" -> [json |-> "array"]
      [] value.type = "str" -> [json |-> "string"]

\* json.loads of a serialised test result.
PyValue(j) ==
    CASE j.json = "number" -> Value(IF j.frac THEN "float" ELSE "int")
      [] j.json = "object" -> Value("dict")
      [] j.json = "array" -> Value("list")
      [] j.json = "string" -> Value("str")

JsonRecord(r) == [r EXCEPT !.result = JsonValue(@)]

\* json.dump / json.dumps of the report dict.
JsonDumps(report) ==
    [metadata |-> report.metadata,
     data |-> [i \in 1..Len(report.data) |-> JsonRecord(report.data[i])]]

JsonLoads(text) ==
    [metadata |-> text.metadata,
     data |-> [i \in 1..Len(text.data) |->
                  [text.data[i] EXCEPT !.result = PyValue(@)]]]

\* The local file system and the S3 namespace.
NoFiles == [dirs |-> {}, files |-> <<>>, s3 |-> <<>>]

\* metadata_store_service.write_file(path, data, is_json=True): the files
\* afterwards, or the error open() raises when the folder is missing.
WriteFile(service, path, data, fs) ==
    IF service = "S3MetaStore"
    THEN [fs EXCEPT !.s3 = DictSet(@, path, JsonDumps(data))]
    ELSE IF Dirname(path) \notin fs.dirs
         THEN Raise("FileNotFoundError")
         ELSE [fs EXCEPT !.files = DictSet(@, path, JsonDumps(data))]

\* tempfile.NamedTemporaryFile().name + ".png": a name no file has yet, in
\* the temporary folder.
TempFileName(fs) == <<"tmp", "tmp" \o ToString(Len(fs.files)) \o ".png">>

\* The local file that save_plot leaves behind: fig.savefig(file_name) of
\* the Neptune and Comet loggers; the console logger's save_plot does nothing.
LoggerSavePlotFile(service, name, fig, fs) ==
    IF service.cls = "LocalLogger" THEN fs
    ELSE [fs EXCEPT !.files = DictSet(@, TempFileName(fs), fig)]

\* -------------------------------------------------------------------- plots

Fig(kind, test_result) ==
    [chart |-> kind, title |-> test_result.name, data |-> test_result.result]

\* _bin_chart without the assertion of line 565.
BinChartUnchecked(test_result) == Fig("hist", test_result)

_bin_chart(test_result) ==
    IF ~isinstance(test_result.result, "list")
    THEN Raise("AssertionError")
    ELSE Fig("hist", test_result)

_bar_chart(test_result) ==
    IF ~HasKeys(test_result.result)
    THEN Raise("AttributeError")
    ELSE Fig("bar", test_result)

\* fig = None
NoFig == [chart |-> None]

\* One pass of the loop of _generate_plots: the figure of a record, NoFig
\* when its display type gets no chart, or the error its chart raises.
PlotOf(test_result) ==
    LET display_type == test_result.display_type
    IN  IF display_type = Str(SCALAR) THEN NoFig
        ELSE IF display_type = Str(BARS) THEN _bar_chart(test_result)
        ELSE IF display_type = Str(BINS) THEN _bin_chart(test_result)
        ELSE NoFig

\* The loop of _generate_plots from the dict test_2_fig: the dict at the
\* end, or the first error.
RECURSIVE GeneratePlotsFrom(_, _)
GeneratePlotsFrom(test_results, test_2_fig) ==
    IF test_results = <<>> THEN Return(test_2_fig)
    ELSE LET test_result == Head(test_results)
             fig == PlotOf(test_result)
         IN  IF IsExc(fig) THEN fig
             ELSE IF fig # NoFig
                  THEN GeneratePlotsFrom(
                           Tail(test_results),
                           DictSet(test_2_fig, test_result.name, fig))
                  ELSE GeneratePlotsFrom(Tail(test_results), test_2_fig)

\* A _generate_plots that leaves out the records whose value does not fit
\* their chart instead of raising.
GeneratePlotsSkipping(test_results) ==
    GeneratePlotsFrom(SelectSeq(test_results,
                                LAMBDA r : ~IsExc(PlotOf(r))), <<>>)

_generate_plots(test_results) == GeneratePlotsFrom(test_results, <<>>)

\* ------------------------------------------------------------------- state

VARIABLES
    args,          \* what the caller passes to the suite's constructor
    environ,       \* os.environ
    status,        \* "new", "constructed", or "failed" when __init__ raised
    self,          \* the suite instance's attributes
    clock,         \* the last value of time.time() in milliseconds
    telemetry,     \* what the telemetry backend has received
    fs,            \* the local file system and the S3 namespace
    pc,            \* where __call__ stands: "idle" or "tests"
    idx,           \* the position of the loop of __call__ in _rec_tests
    events,        \* the calls __call__ has made in the current invocation
    invocations,   \* how many times __call__ was entered
    completed,     \* how many times __call__ returned
    raised,        \* the error that ended __init__ or the last __call__
    suites,        \* SpecDiscovery: two suite instances under construction
    service,       \* SpecLogger: the logger under construction
    rendered       \* SpecPlots: the records handed to _generate_plots, its result

vars ==
    <<args, environ, status, self, clock, telemetry, fs, pc, idx, events,
      invocations, completed, raised, suites, service, rendered>>

mainVars ==
    <<status, self, clock, telemetry, fs, pc, idx, events, invocations,
      completed, raised>>

\* ------------------------------------------------------- RecList.__init__

\* A constructor that never checks the bucket.
BucketCheckSkipped(metadata_store, metadata_bucket) == TRUE

\* The assertion of line 413.
BucketCheck(metadata_store, metadata_bucket) ==
    IF metadata_store = "S3" THEN metadata_bucket # None ELSE TRUE

\* RecList.__init__(model_name, logger, metadata_store, **kwargs) of class
\* a.cls: the instance's attributes, or the error that ends construction.
RecListInit(a, env) ==
    LET name == a.cls
        model_name == a.model_name
        _rec_tests == get_tests([name |-> name, model_name |-> model_name,
                                 initialised |-> FALSE])
        logger_service == LoggerInit(logger_factory(a.logger), a.kwargs, env)
        metadata_bucket ==
            IF "bucket" \in DOMAIN a.kwargs THEN a.kwargs["bucket"] ELSE None
    IN  IF IsExc(logger_service) THEN logger_service
        ELSE IF ~BucketCheck(a.metadata_store, metadata_bucket)
             THEN Raise("AssertionError")
        ELSE [name |-> name,
              model_name |-> model_name,
              _rec_tests |-> _rec_tests,
              _test_results |-> <<>>,
              logger |-> a.logger,
              logger_service |-> logger_service,
              metadata_bucket |-> metadata_bucket,
              metadata_store_service |->
                  metadata_store_factory(a.metadata_store),
              metadata_store |-> a.metadata_store,
              meta_store_path |-> <<>>]

\* ------------------------------------------------ RecList.create_data_store

META_DATA_FOLDER == ".reclist"

\* The path of line 444: os.path.join raises TypeError on a None bucket.
ReportPath(obj, run_epoch_time_ms) ==
    LET bucket ==
            IF obj.metadata_store = "S3" THEN obj.metadata_bucket ELSE ""
    IN  IF bucket = None THEN Raise("TypeError")
        ELSE Return(PathJoin(<<bucket, META_DATA_FOLDER, obj.name,
                               obj.model_name, ToString(run_epoch_time_ms)>>))

folders == <<"artifacts", "results", "plots">>

\* A create_data_store that makes the subfolders whatever the store.
MkdirsAnyStore(obj, report_path, files) ==
    [files EXCEPT
        !.dirs = @ \cup {report_path \o <<folders[k]>> : k \in 1..Len(folders)}]

\* The subfolders create_data_store makes in the local file system.
Mkdirs(obj, report_path, files) ==
    IF obj.metadata_store = "LOCAL"
    THEN [files EXCEPT
            !.dirs = @ \cup {report_path \o <<folders[k]>> : k \in 1..Len(folders)}]
    ELSE files

\* -------------------------------------------------------- RecList.__call__

\* The types a test callable returns in Spec: a float, a mapping or a list,
\* whatever display type it declares.
ReturnTypes == {"float", "dict", "list"}

\* The dict appended to _test_results at line 503.
Record(test, test_result) ==
    [name |-> test.test_type,
     description |-> test.test_desc,
     result |-> test_result,
     display_type |-> Str(test.display_type)]

\* A report whose metadata lists the tests' display labels.
ReportLabels(obj, test_results) ==
    [metadata |-> [model_name |-> obj.model_name,
                   reclist |-> obj.name,
                   tests |-> [k \in 1..Len(obj._rec_tests) |->
                                 obj._rec_tests[k][2].test_type]],
     data |-> test_results]

\* The report dict of _dump_results_to_json.
Report(obj, test_results) ==
    [metadata |-> [model_name |-> obj.model_name,
                   reclist |-> obj.name,
                   tests |-> Keys(obj._rec_tests)],
     data |-> test_results]

ReportFileName(report_path) == report_path \o <<"results", "report.json">>

\* _dump_results_to_json: the files afterwards, or write_file's error.
_dump_results_to_json(obj, test_results, report_path, files) ==
    WriteFile(obj.metadata_store_service, ReportFileName(report_path),
              Report(obj, test_results), files)

PlotFileName(meta_store_path, test_name) ==
    meta_store_path \o <<"plots", test_name \o ".png">>

\* The loop of _generate_report_and_plot: fig.savefig for each chart when
\* the store is the local one.
RECURSIVE SaveFigs(_, _, _)
SaveFigs(obj, test_2_fig, files) ==
    IF test_2_fig = <<>> \/ obj.metadata_store # "LOCAL" THEN files
    ELSE SaveFigs(obj, Tail(test_2_fig),
                  [files EXCEPT !.files =
                      DictSet(@, PlotFileName(obj.meta_store_path,
                                              Head(test_2_fig)[1]),
                              Head(test_2_fig)[2])])

\* The loop of lines 516-517: save_plot for each chart.
RECURSIVE SavePlots(_, _, _)
SavePlots(obj, test_2_fig, out) ==
    IF test_2_fig = <<>> THEN out
    ELSE SavePlots(obj, Tail(test_2_fig),
                   LoggerSavePlot(obj.logger_service, Head(test_2_fig)[1],
                                  Head(test_2_fig)[2], out))

\* The files the save_plot calls of lines 516-517 leave behind.
RECURSIVE SavePlotFiles(_, _, _)
SavePlotFiles(obj, test_2_fig, files) ==
    IF test_2_fig = <<>> THEN files
    ELSE SavePlotFiles(obj, Tail(test_2_fig),
                       LoggerSavePlotFile(obj.logger_service,
                                          Head(test_2_fig)[1],
                                          Head(test_2_fig)[2], files))

SaveFigEvents(obj, test_2_fig) ==
    IF obj.metadata_store # "LOCAL" THEN <<>>
    ELSE [k \in 1..Len(test_2_fig) |-> <<"savefig", test_2_fig[k][1]>>]

SavePlotEvents(test_2_fig) ==
    [k \in 1..Len(test_2_fig) |-> <<"save_plot", test_2_fig[k][1]>>]

WriteFileEvent(obj) == <<"write_file", ReportFileName(obj.meta_store_path)>>

\* An engine that forwards the charts to the logger before it writes the
\* report.
EndEventsPlotsFirst(obj, test_2_fig) ==
    SavePlotEvents(test_2_fig)
    \o <<WriteFileEvent(obj)>>
    \o SaveFigEvents(obj, test_2_fig)

\* The calls of __call__ after its loop, in the order of lines 528, 534
\* and 517.
EndEvents(obj, test_2_fig) ==
    <<WriteFileEvent(obj)>>
    \o SaveFigEvents(obj, test_2_fig)
    \o SavePlotEvents(test_2_fig)

\* ----------------------------------------------------------- configurations

SettingKeys(label) == Range(Settings(logger_factory(label)))

AllSettingKeys == Range(CometSettings) \cup Range(NeptuneSettings)

Given(keys) == [k \in keys |-> "given"]

FromEnv(keys) == [k \in keys |-> "exported"]

\* The logger, its settings among the keyword arguments, and os.environ of
\* the suites of Spec.
LoggerConfigs ==
    { [logger |-> "LOCAL", kwargs |-> Given({}), environ |-> FromEnv({})],
      [logger |-> "COMET", kwargs |-> Given(Range(CometSettings)),
       environ |-> FromEnv(AllSettingKeys)],
      [logger |-> "NEPTUNE", kwargs |-> Given({}),
       environ |-> FromEnv(AllSettingKeys)],
      [logger |-> "COMET", kwargs |-> Given({}), environ |-> FromEnv({})] }

\* The storage backend and the bucket keyword argument of the suites of Spec.
StoreConfigs ==
    { [metadata_store |-> "LOCAL", kwargs |-> Given({})],
      [metadata_store |-> "LOCAL", kwargs |-> ("bucket" :> "my-bucket")],
      [metadata_store |-> "S3", kwargs |-> ("bucket" :> "my-bucket")],
      [metadata_store |-> "S3", kwargs |-> ("bucket" :> None)],
      [metadata_store |-> "S3", kwargs |-> Given({})] }

SuiteClasses == {"AccuracySuite", "DFSessionRecList", "SameLabelSuite"}

NoSelf == [name |-> None]

\* The variables a specification does not use.
Unused(v) == v = <<>>

\* ------------------------------------------------------------------ actions

Init ==
    /\ \E cls \in SuiteClasses, lc \in LoggerConfigs, sc \in StoreConfigs :
          /\ args = [cls |-> cls,
                     model_name |-> "myRandomModel",
                     logger |-> lc.logger,
                     metadata_store |-> sc.metadata_store,
                     kwargs |-> lc.kwargs @@ sc.kwargs]
          /\ environ = lc.environ
    /\ status = "new"
    /\ self = NoSelf
    /\ clock = 0
    /\ telemetry = NoTelemetry
    /\ fs = NoFiles
    /\ pc = "idle"
    /\ idx = 0
    /\ events = <<>>
    /\ invocations = 0
    /\ completed = 0
    /\ raised = None
    /\ Unused(suites) /\ Unused(service) /\ Unused(rendered)

\* cls(model_name, logger, metadata_store, **kwargs)
Construct ==
    /\ status = "new"
    /\ LET obj == RecListInit(args, environ)
       IN  IF IsExc(obj)
           THEN /\ status' = "failed"
                /\ raised' = obj.exc
                /\ UNCHANGED self
           ELSE /\ status' = "constructed"
                /\ self' = obj
                /\ UNCHANGED raised
    /\ UNCHANGED <<args, environ, clock, telemetry, fs, pc, idx, events,
                   invocations, completed, suites, service, rendered>>

\* An engine that starts every invocation with an empty result sequence.
CallBeginReset ==
    /\ status = "constructed"
    /\ pc = "idle"
    /\ invocations < MaxInvocations
    /\ invocations' = invocations + 1
    /\ events' = <<>>
    /\ \E run_epoch_time_ms \in clock..MaxTime :
          /\ clock' = run_epoch_time_ms
          /\ LET report_path == ReportPath(self, run_epoch_time_ms)
             IN  IF IsExc(report_path)
                 THEN /\ raised' = report_path.exc
                      /\ UNCHANGED <<self, fs, pc, idx>>
                 ELSE /\ raised' = None
                      /\ self' = [self EXCEPT
                                    !.meta_store_path = report_path.ret,
                                    !._test_results = <<>>]
                      /\ fs' = Mkdirs(self, report_path.ret, fs)
                      /\ pc' = "tests"
                      /\ idx' = 1
    /\ UNCHANGED <<args, environ, status, telemetry, completed, suites,
                   service, rendered>>

\* __call__ up to its loop: create_data_store.
CallBegin ==
    /\ status = "constructed"
    /\ pc = "idle"
    /\ invocations < MaxInvocations
    /\ invocations' = invocations + 1
    /\ events' = <<>>
    /\ \E run_epoch_time_ms \in clock..MaxTime :
          /\ clock' = run_epoch_time_ms
          /\ LET report_path == ReportPath(self, run_epoch_time_ms)
             IN  IF IsExc(report_path)
                 THEN /\ raised' = report_path.exc
                      /\ UNCHANGED <<self, fs, pc, idx>>
                 ELSE /\ raised' = None
                      /\ self' = [self EXCEPT
                                    !.meta_store_path = report_path.ret]
                      /\ fs' = Mkdirs(self, report_path.ret, fs)
                      /\ pc' = "tests"
                      /\ idx' = 1
    /\ UNCHANGED <<args, environ, status, telemetry, completed, suites,
                   service, rendered>>

\* One pass of the loop of __call__ whose test returns.
TestReturns ==
    /\ pc = "tests"
    /\ idx <= Len(self._rec_tests)
    /\ LET test == self._rec_tests[idx][2]
       IN  \E type \in ReturnTypes :
              LET test_result == Value(type)
              IN  /\ self' = [self EXCEPT !._test_results =
                                 Append(@, Record(test, test_result))]
                  /\ telemetry' = LoggerWrite(self.logger_service,
                                              test.test_type, test_result,
                                              telemetry)
                  /\ events' = events \o
                        << <<"call", test.name>>,
                           <<"append", test.test_type>>,
                           <<"write", test.test_type, test_result>> >>
    /\ idx' = idx + 1
    /\ UNCHANGED <<args, environ, status, clock, fs, pc, invocations,
                   completed, raised, suites, service, rendered>>

\* An engine that isolates its tests: the error is swallowed and the loop
\* goes on with the next test.
TestRaisesIsolated ==
    /\ pc = "tests"
    /\ idx <= Len(self._rec_tests)
    /\ events' = Append(events, <<"call", self._rec_tests[idx][2].name>>)
    /\ idx' = idx + 1
    /\ UNCHANGED <<args, environ, status, self, clock, telemetry, fs, pc,
                   invocations, completed, raised, suites, service, rendered>>

\* One pass of the loop of __call__ whose test raises: __call__ ends.
TestRaises ==
    /\ pc = "tests"
    /\ idx <= Len(self._rec_tests)
    /\ events' = Append(events, <<"call", self._rec_tests[idx][2].name>>)
    /\ raised' = "TestError"
    /\ pc' = "idle"
    /\ UNCHANGED <<args, environ, status, self, clock, telemetry, fs, idx,
                   invocations, completed, suites, service, rendered>>

\* __call__ after its loop: _generate_report_and_plot, then save_plot for
\* each chart.  _display_rich_table (line 513) only prints and changes no
\* state.
CallEnd ==
    /\ pc = "tests"
    /\ idx > Len(self._rec_tests)
    /\ pc' = "idle"
    /\ LET dumped == _dump_results_to_json(self, self._test_results,
                                           self.meta_store_path, fs)
           test_2_fig == _generate_plots(self._test_results)
           wrote == WriteFileEvent(self)
       IN  IF IsExc(dumped)
           THEN /\ raised' = dumped.exc
                /\ UNCHANGED <<fs, telemetry, events, completed>>
           ELSE IF IsExc(test_2_fig)
           THEN /\ raised' = test_2_fig.exc
                /\ fs' = dumped
                /\ events' = Append(events, wrote)
                /\ UNCHANGED <<telemetry, completed>>
           ELSE /\ fs' = SavePlotFiles(self, test_2_fig.ret,
                                     SaveFigs(self, test_2_fig.ret, dumped))
                /\ telemetry' = SavePlots(self, test_2_fig.ret, telemetry)
                /\ events' = events \o EndEvents(self, test_2_fig.ret)
                /\ completed' = completed + 1
                /\ UNCHANGED raised
    /\ UNCHANGED <<args, environ, status, self, clock, idx, invocations,
                   suites, service, rendered>>

Next ==
    \/ Construct
    \/ CallBegin
    \/ TestReturns
    \/ TestRaises
    \/ CallEnd

Spec == Init /\ [][Next]_vars

\* ------------------------------------------------- SpecDiscovery: get_tests

ModelNames == {"myRandomModel", "myDataFrameRandomModel"}

Discovered(k) == "_rec_tests" \in DOMAIN suites[k]

Rediscovered(k) == "again" \in DOMAIN suites[k]

InitDiscovery ==
    /\ suites \in [{1, 2} -> [name : ClassNames, model_name : ModelNames]]
    /\ args = <<>> /\ environ = <<>> /\ status = "new" /\ self = NoSelf
    /\ clock = 0 /\ telemetry = NoTelemetry /\ fs = NoFiles /\ pc = "idle"
    /\ idx = 0 /\ events = <<>> /\ invocations = 0 /\ completed = 0
    /\ raised = None
    /\ Unused(service) /\ Unused(rendered)

\* Line 407: __init__ of instance k runs get_tests.
Discover(k) ==
    /\ ~Discovered(k)
    /\ suites' = [suites EXCEPT ![k] =
          [name |-> @.name,
           model_name |-> @.model_name,
           _rec_tests |-> get_tests([name |-> @.name,
                                     model_name |-> @.model_name,
                                     initialised |-> FALSE])]]
    /\ UNCHANGED <<args, environ, mainVars, service, rendered>>

\* get_tests() called again on the constructed instance k.
Rediscover(k) ==
    /\ Discovered(k)
    /\ ~Rediscovered(k)
    /\ suites' = [suites EXCEPT ![k] =
          [name |-> @.name,
           model_name |-> @.model_name,
           _rec_tests |-> @._rec_tests,
           again |-> get_tests([name |-> @.name,
                                model_name |-> @.model_name,
                                initialised |-> TRUE])]]
    /\ UNCHANGED <<args, environ, mainVars, service, rendered>>

NextDiscovery ==
    \/ \E k \in {1, 2} : Discover(k)
    \/ \E k \in {1, 2} : Rediscover(k)

SpecDiscovery == InitDiscovery /\ [][NextDiscovery]_vars

\* ---------------------------------------------- SpecLogger: the loggers

\* How many values SpecLogger writes to one logger.
MaxWrites == 2

InitLogger ==
    /\ \E label \in LOGGER :
          \E given \in SUBSET SettingKeys(label),
             exported \in SUBSET SettingKeys(label) :
                /\ args = [logger |-> label, kwargs |-> Given(given)]
                /\ environ = FromEnv(exported)
    /\ service = [state |-> "new"]
    /\ telemetry = NoTelemetry
    /\ status = "new" /\ self = NoSelf /\ clock = 0 /\ fs = NoFiles
    /\ pc = "idle" /\ idx = 0 /\ events = <<>> /\ invocations = 0
    /\ completed = 0 /\ raised = None
    /\ Unused(suites) /\ Unused(rendered)

\* logger_factory(label)(**kwargs)
LoggerConstruct ==
    /\ service.state = "new"
    /\ LET obj == LoggerInit(logger_factory(args.logger), args.kwargs, environ)
       IN  service' = IF IsExc(obj)
                      THEN [state |-> "failed", exc |-> obj.exc]
                      ELSE [state |-> "constructed", obj |-> obj,
                            written |-> <<>>]
    /\ UNCHANGED <<args, environ, mainVars, suites, rendered>>

\* logger_service.write(label, value)
LoggerWrites ==
    /\ service.state = "constructed"
    /\ Len(service.written) < MaxWrites
    /\ \E label \in {"Accuracy", "HIT_RATE"}, type \in PyTypes :
          /\ telemetry' = LoggerWrite(service.obj, label, Value(type),
                                      telemetry)
          /\ service' = [service EXCEPT
                           !.written = Append(@, <<label, Value(type)>>)]
    /\ UNCHANGED <<args, environ, status, self, clock, fs, pc, idx, events,
                   invocations, completed, raised, suites, rendered>>

NextLogger ==
    \/ LoggerConstruct
    \/ LoggerWrites

SpecLogger == InitLogger /\ [][NextLogger]_vars

\* --------------------------------------------- SpecPlots: _generate_plots

\* The Result Records _generate_plots is handed in SpecPlots.
PlotRecords ==
    [name : {"Accuracy", "LessWrong"},
     description : {<<>>},
     result : {Value(type) : type \in PyTypes},
     display_type : {Str(d) : d \in CHART_TYPE \cup {None}}]

RECURSIVE SeqsUpTo(_, _)
SeqsUpTo(S, n) ==
    IF n = 0 THEN {<<>>}
    ELSE LET shorter == SeqsUpTo(S, n - 1)
         IN  shorter \cup {Append(q, x) : q \in shorter, x \in S}

InitPlots ==
    /\ \E test_results \in SeqsUpTo(PlotRecords, MaxRecords) :
          rendered = [test_results |-> test_results, state |-> "new"]
    /\ args = <<>> /\ environ = <<>> /\ status = "new" /\ self = NoSelf
    /\ clock = 0 /\ telemetry = NoTelemetry /\ fs = NoFiles /\ pc = "idle"
    /\ idx = 0 /\ events = <<>> /\ invocations = 0 /\ completed = 0
    /\ raised = None
    /\ Unused(suites) /\ Unused(service)

\* _generate_plots(test_results)
Render ==
    /\ rendered.state = "new"
    /\ rendered' = [test_results |-> rendered.test_results,
                    state |-> "rendered",
                    test_2_fig |-> _generate_plots(rendered.test_results)]
    /\ UNCHANGED <<args, environ, mainVars, suites, service>>

NextPlots == Render

SpecPlots == InitPlots /\ [][NextPlots]_vars

\* =================================================================== claims

\* The reports the Artifact Store holds, read back.
StoredReports ==
    LET all == fs.files \o fs.s3
    IN  {JsonLoads(all[k][2]) :
            k \in {j \in 1..Len(all) : all[j][1][Len(all[j][1])] = "report.json"}}

\* The invocation that was entered last ended with a raising test.
AbortedByTest == pc = "idle" /\ raised = "TestError"

\* The invocation that was entered last has returned.
Completed ==
    status = "constructed" /\ pc = "idle" /\ invocations >= 1 /\ raised = None

\* C1: when a test callable raises, the invocation ends there: the call
\* that raised is the last thing the invocation did (no later test is
\* called, no report is written, no chart is saved), the records of the
\* tests that returned before it are the last records of _test_results, in
\* discovery order, and no stored report holds them.
C1_AbortOnRaise ==
    /\ \A k \in 1..Len(events) :
          (/\ events[k][1] = "call"
           /\ (k = Len(events) \/ events[k + 1][1] # "append"))
          => k = Len(events)
    /\ AbortedByTest =>
          LET done == idx - 1
              results == self._test_results
          IN  /\ Len(events) = 3 * done + 1
              /\ events[Len(events)] = <<"call", self._rec_tests[idx][2].name>>
              /\ \A k \in 1..Len(events) :
                    events[k][1] \notin {"write_file", "savefig", "save_plot"}
              /\ Len(results) >= done
              /\ \A j \in 1..done :
                    results[Len(results) - done + j] =
                        Record(self._rec_tests[j][2], events[3 * j][3])
              /\ done >= 1 =>
                    \A report \in StoredReports : report.data # results

\* C1 witness: the second test of a suite raised after the first returned.
C1_Witness ==
    /\ AbortedByTest
    /\ idx = 2
    /\ Len(self._rec_tests) = 2
    /\ Len(self._test_results) = 1

\* C2: a logger's construction succeeds exactly when each of its settings
\* is given as a keyword argument or exported in the environment, and takes
\* the keyword argument's value when there is one.
C2_ArgumentFirst ==
    service.state # "new" =>
        LET keys == Settings(logger_factory(args.logger))
        IN  /\ service.state = "constructed" <=>
                  \A k \in 1..Len(keys) :
                      keys[k] \in DOMAIN args.kwargs \cup DOMAIN environ
            /\ service.state = "constructed" =>
                  \A k \in 1..Len(keys) :
                      service.obj.experiment[k] =
                          IF keys[k] \in DOMAIN args.kwargs
                          THEN args.kwargs[keys[k]]
                          ELSE environ[keys[k]]

NoBucket ==
    "bucket" \notin DOMAIN args.kwargs \/ args.kwargs["bucket"] = None

\* C3: with the S3 store and no bucket the constructor raises, so the suite
\* is never invoked and no test runs; the bucket assertion fails in no other
\* case.
C3_BucketRequired ==
    /\ (status # "new" /\ args.metadata_store = "S3" /\ NoBucket) =>
          /\ status = "failed"
          /\ self = NoSelf
    /\ status = "failed" =>
          /\ invocations = 0
          /\ events = <<>>
          /\ telemetry = NoTelemetry
          /\ fs = NoFiles
    /\ (status = "failed" /\ raised = "AssertionError") =>
          (args.metadata_store = "S3" /\ NoBucket)
    /\ (status = "constructed" /\ args.metadata_store = "S3") =>
          self.metadata_bucket # None

\* C3 witness: construction with the S3 store and no bucket has failed on
\* the assertion.
C3_Witness ==
    /\ status = "failed"
    /\ raised = "AssertionError"
    /\ args.metadata_store = "S3"
    /\ "bucket" \notin DOMAIN args.kwargs

\* The report at the run's path, read back from the store.
LastReport ==
    JsonLoads(Lookup(IF self.metadata_store = "S3" THEN fs.s3 ELSE fs.files,
                     ReportFileName(self.meta_store_path)))

SavePlotCalls == SelectSeq(events, LAMBDA e : e[1] = "save_plot")

\* C4: after the one invocation of a suite with a scalar test and the bars
\* test accuracy_by_country, the report's data has two entries and exactly
\* one chart is passed to save_plot, under the name accuracy_by_country.
C4_ChartNamedAfterTest ==
    (Completed /\ args.cls = "AccuracySuite" /\ invocations = 1) =>
        /\ Len(LastReport.data) = 2
        /\ SavePlotCalls = << <<"save_plot", "accuracy_by_country">> >>

Mismatched(r) ==
    \/ r.display_type = Str(BINS) /\ r.result.type # "list"
    \/ r.display_type = Str(BARS) /\ r.result.type # "dict"

Charted(r) == r.display_type \in {Str(BARS), Str(BINS)}

\* C5: rendering raises exactly when some record declared bins holds a
\* value that is no list, or some record declared bars holds a value that
\* is no mapping; otherwise every bins and bars record gets a chart.
C5_ShapeChecked ==
    rendered.state = "rendered" =>
        LET rs == rendered.test_results
            out == rendered.test_2_fig
        IN  /\ IsExc(out) <=> \E k \in 1..Len(rs) : Mismatched(rs[k])
            /\ IsExc(out) =>
                  LET first == CHOOSE k \in 1..Len(rs) :
                                  /\ Mismatched(rs[k])
                                  /\ \A j \in 1..(k - 1) : ~Mismatched(rs[j])
                  IN  out.exc = IF rs[first].display_type = Str(BINS)
                                THEN "AssertionError"
                                ELSE "AttributeError"
            /\ ~IsExc(out) =>
                  /\ \A k \in 1..Len(rs) :
                        Charted(rs[k]) => HasKey(out.ret, rs[k].name)
                  /\ \A j \in 1..Len(out.ret) :
                        \E k \in 1..Len(rs) :
                            /\ Charted(rs[k])
                            /\ rs[k].name = out.ret[j][1]
                            /\ out.ret[j][2].data = rs[k].result

\* C5 witness: a bins record holding a list, then a bins record holding a
\* float, and rendering has raised.
C5_Witness ==
    /\ rendered.state = "rendered"
    /\ Len(rendered.test_results) = 2
    /\ rendered.test_results[1].display_type = Str(BINS)
    /\ rendered.test_results[1].result.type = "list"
    /\ rendered.test_results[2].display_type = Str(BINS)
    /\ rendered.test_results[2].result.type = "float"
    /\ IsExc(rendered.test_2_fig)

\* The names of the members of the suite's class that carry the marker.
MarkedNames(cls) ==
    {m.value.name : m \in {x \in Range(OwnMembers(cls)) :
                              "is_test" \in DOMAIN x.value}}

\* C6: after a completed invocation the report at the run's path, read
\* back, lists the discovered test names, the model name and the suite
\* name, and its data is the suite's sequence of Result Records, each with
\* the fields name, description, result and display_type.
C6_ReportContents ==
    Completed =>
        /\ Range(LastReport.metadata.tests) = MarkedNames(args.cls)
        /\ LastReport.metadata.model_name = args.model_name
        /\ LastReport.metadata.reclist = args.cls
        /\ DOMAIN LastReport.metadata = {"model_name", "reclist", "tests"}
        /\ LastReport.data = self._test_results
        /\ \A k \in 1..Len(LastReport.data) :
              DOMAIN LastReport.data[k] =
                  {"name", "description", "result", "display_type"}

\* C6 witness: a suite whose tests share a display label has completed an
\* invocation.
C6_Witness ==
    /\ Completed
    /\ args.cls = "SameLabelSuite"
    /\ Len(self._test_results) = 2

\* The discoveries made so far on instance k.
Discoveries(k) ==
    (IF Discovered(k) THEN {suites[k]._rec_tests} ELSE {})
    \cup (IF Rediscovered(k) THEN {suites[k].again} ELSE {})

\* C7: every discovery on any instance of one suite class yields the same
\* sequence of test names, the names of the class's members that carry the
\* rec_test marker, and every discovered callable carries the marker.
C7_StableDiscovery ==
    \A a \in {1, 2}, b \in {1, 2} :
        \A da \in Discoveries(a), db \in Discoveries(b) :
            /\ suites[a].name = suites[b].name => Keys(da) = Keys(db)
            /\ Range(Keys(da)) = MarkedNames(suites[a].name)
            /\ \A k \in 1..Len(da) :
                  /\ "is_test" \in DOMAIN da[k][2]
                  /\ da[k][2].name = da[k][1]
            /\ \A j \in 1..Len(da), k \in 1..Len(da) :
                  da[j][1] = da[k][1] => j = k

\* C7 witness: two instances of FreeSessionRecList with different model
\* names, each discovered during construction and once more afterwards.
C7_Witness ==
    /\ suites[1].name = "FreeSessionRecList"
    /\ suites[2].name = "FreeSessionRecList"
    /\ suites[1].model_name # suites[2].model_name
    /\ Rediscovered(1)
    /\ Rediscovered(2)

\* C8: the result sequence only grows, each value a prefix of the next;
\* after k invocations that all completed it holds k * n records for the n
\* discovered tests, and the report of a completed invocation holds every
\* record accumulated so far.
C8_AppendOnly ==
    /\ [](/\ (status = "constructed" /\ pc = "idle" /\ completed = invocations)
             => Len(self._test_results) = completed * Len(self._rec_tests)
          /\ Completed => /\ LastReport.data = self._test_results
                          /\ Len(LastReport.data) >=
                                completed * Len(self._rec_tests))
    /\ [][status = "constructed"
             => IsPrefix(self._test_results, self'._test_results)]_vars

\* C8 witness: a suite of two tests has completed two invocations and
\* holds four records.
C8_Witness ==
    /\ Completed
    /\ completed = 2
    /\ Len(self._rec_tests) = 2
    /\ Len(self._test_results) = 4

\* The records the current invocation has appended.
Appended ==
    LET n == Cardinality({k \in 1..Len(events) : events[k][1] = "append"})
        results == self._test_results
    IN  SubSeq(results, Len(results) - n + 1, Len(results))

\* C9: in one invocation the calls are, for each discovered test in
\* discovery order, the test, the append of its record and the logger's
\* write of its label and result; then write_file for the report; then the
\* charts' savefig and save_plot calls.
C9_CallOrder ==
    status = "constructed" =>
        LET n == Len(self._rec_tests)
            TestOf(k) == self._rec_tests[(k + 2) \div 3][2]
        IN  /\ \A k \in 1..Len(events) :
                  LET e == events[k]
                  IN  CASE e[1] = "call" ->
                              /\ k % 3 = 1 /\ k <= 3 * n
                              /\ e[2] = Keys(self._rec_tests)[(k + 2) \div 3]
                        [] e[1] = "append" ->
                              /\ k % 3 = 2 /\ k <= 3 * n
                              /\ e[2] = TestOf(k).test_type
                        [] e[1] = "write" ->
                              /\ k % 3 = 0 /\ k <= 3 * n
                              /\ e[2] = TestOf(k).test_type
                              /\ e[3] = Appended[k \div 3].result
                        [] e[1] = "write_file" -> k = 3 * n + 1
                        [] e[1] \in {"savefig", "save_plot"} -> k > 3 * n + 1
            /\ Completed =>
                  /\ Len(events) >= 3 * n + 1
                  /\ events[3 * n + 1][1] = "write_file"

\* C9 witness: an invocation of a two-test suite has completed and passed a
\* chart to save_plot.
C9_Witness ==
    /\ Completed
    /\ Len(self._rec_tests) = 2
    /\ SavePlotCalls # <<>>

\* C10: at the end of a completed invocation save_plot has been called once
\* for each bars or bins record of the result sequence.
C10_OneChartPerRecord ==
    Completed =>
        Len(SavePlotCalls) =
            Cardinality({k \in 1..Len(self._test_results) :
                            Charted(self._test_results[k])})

\* The step of __call__ that writes the report.
WritesReport ==
    /\ pc = "tests"
    /\ Len(events') > Len(events)
    /\ events'[Len(events) + 1][1] = "write_file"

\* The files of the suite's Artifact Store.
Stored == IF self.metadata_store = "S3" THEN fs.s3 ELSE fs.files

\* C11: an invocation of a suite that was invoked before gets a run path
\* other than the earlier invocation's, and the report of an invocation is
\* written to a path where no report of another invocation is.
C11_UniqueRunPath ==
    [][/\ (status = "constructed" /\ pc = "idle" /\ pc' = "tests"
           /\ invocations >= 1)
          => self'.meta_store_path # self.meta_store_path
       /\ WritesReport
          => ~HasKey(Stored, ReportFileName(self.meta_store_path))]_vars

\* A Python int or float.
Numeric(value) == value.type \in {"float", "int"}

\* The label and value of each entry the remote experiment holds.
Forwarded ==
    [k \in 1..Len(telemetry.experiment) |->
        <<telemetry.experiment[k][2], telemetry.experiment[k][3]>>]

\* C12: of the values written to a Comet or Neptune logger, the remote
\* experiment holds every int and every float and nothing that was not
\* written; the console logger prints every value written to it.
C12_NumericForwarded ==
    service.state = "constructed" =>
        IF service.obj.cls = "LocalLogger"
        THEN telemetry.stdout = service.written
        ELSE /\ \A k \in 1..Len(service.written) :
                   Numeric(service.written[k][2])
                   => \E j \in 1..Len(Forwarded) :
                          Forwarded[j] = service.written[k]
             /\ \A j \in 1..Len(Forwarded) :
                   \E k \in 1..Len(service.written) :
                       service.written[k] = Forwarded[j]

\* The local files under the folder path.
LocalFilesUnder(path) ==
    {k \in 1..Len(fs.files) : IsPrefix(path, fs.files[k][1])}

\* The local files that hold a chart.
LocalPlotFiles ==
    {k \in 1..Len(fs.files) : "chart" \in DOMAIN fs.files[k][2]}

\* With the local store: the run's subfolders exist while the tests run,
\* the first included, and after a completed invocation plots/ holds the
\* chart of each save_plot call, drawn from a charted record of that name.
LocalStoreEffects ==
    /\ pc = "tests" =>
          \A k \in 1..Len(folders) :
              self.meta_store_path \o <<folders[k]>> \in fs.dirs
    /\ Completed =>
          \A c \in 1..Len(SavePlotCalls) :
              LET file == PlotFileName(self.meta_store_path,
                                       SavePlotCalls[c][2])
              IN  /\ HasKey(fs.files, file)
                  /\ \E k \in 1..Len(self._test_results) :
                        /\ Charted(self._test_results[k])
                        /\ self._test_results[k].name = SavePlotCalls[c][2]
                        /\ Lookup(fs.files, file).data =
                               self._test_results[k].result

\* With the S3 store, after a completed invocation: the report is in S3 and
\* every label of a charted record was passed to save_plot.
S3StoreForwards ==
    Completed =>
        /\ HasKey(fs.s3, ReportFileName(self.meta_store_path))
        /\ \A k \in 1..Len(self._test_results) :
              Charted(self._test_results[k])
              => \E c \in 1..Len(SavePlotCalls) :
                     SavePlotCalls[c][2] = self._test_results[k].name

MismatchErrors == {"AssertionError", "AttributeError"}

\* The charts in the local file system, with their paths.
ChartFiles == {fs.files[k] : k \in LocalPlotFiles}

\* The charts the remote experiment holds.
ChartsSent ==
    SelectSeq(telemetry.experiment, LAMBDA e : e[1] \in {"image", "upload"})

\* C14: an invocation whose tests all returned, with a record whose value
\* does not fit its chart kind among the suite's records, has raised the
\* chart's error; it made each test's call, append and telemetry write and
\* then write_file and nothing more, the report at the run path holds the
\* records, and the step that raised added no chart to the local files nor
\* to the telemetry backend.
C14_MismatchAfterReport ==
    /\ [](/\ (/\ status = "constructed" /\ pc = "idle" /\ invocations >= 1
              /\ raised # "TestError"
              /\ \E k \in 1..Len(self._test_results) :
                    Mismatched(self._test_results[k]))
             => raised \in MismatchErrors
          /\ (status = "constructed" /\ pc = "idle"
              /\ raised \in MismatchErrors)
             => LET n == Len(self._rec_tests)
                IN  /\ Len(events) = 3 * n + 1
                    /\ \A j \in 1..n :
                          /\ events[3 * j][1] = "write"
                          /\ events[3 * j][2] = self._rec_tests[j][2].test_type
                    /\ events[3 * n + 1] = WriteFileEvent(self)
                    /\ LastReport.data = self._test_results
                    /\ \E k \in 1..Len(self._test_results) :
                          Mismatched(self._test_results[k]))
    /\ [][(status = "constructed" /\ pc = "tests" /\ pc' = "idle"
           /\ raised' \in MismatchErrors)
          => /\ ChartFiles' = ChartFiles
             /\ ChartsSent' = ChartsSent
             /\ telemetry' = telemetry]_vars

\* C14 witness: the bars test of a suite returned a mapping, its bins test
\* returned a float, and the invocation raised the assertion of _bin_chart
\* after write_file.
C14_Witness ==
    /\ status = "constructed"
    /\ pc = "idle"
    /\ raised = "AssertionError"
    /\ Len(self._test_results) = 2
    /\ Charted(self._test_results[1])
    /\ ~Mismatched(self._test_results[1])
    /\ Mismatched(self._test_results[2])
    /\ events[Len(events)][1] = "write_file"

====
